---------------------------- MODULE Spec2Model ----------------------------
(***************************************************************************)
(* Model of the Nintendo Switch (skyline) platform layer of std:           *)
(*   library/std/src/sys/net/connection/socket/switch.rs  (Socket, cvt_gai)*)
(*   library/std/src/sys/pal/switch/mod.rs                (cvt, cvt_r)     *)
(*   library/std/src/sys/io/error/switch.rs               (errno, kinds)   *)
(*   library/std/src/sys/time/switch.rs                   (Instant)        *)
(*                                                                         *)
(* One thread calls operations on one socket, one call at a time.  The OS  *)
(* (fcntl, connect, poll, accept, setsockopt, the resolver, the network    *)
(* probe) is the environment: every result it can hand back is a           *)
(* nondeterministic choice of the action that issues the call.             *)
(***************************************************************************)
EXTENDS Integers, Sequences, FiniteSets, TLC

(***************************************************************************)
(* Bounds of the model.                                                    *)
(***************************************************************************)
\* longest connect timeout tried, in clock steps of half a millisecond
MaxTimeoutSteps == 5
\* the clock stops being advanced past this many steps
MaxClockSteps == 8
\* the OS interrupts (EINTR) at most this many calls of one operation
MaxInterrupts == 3

(***************************************************************************)
(* Program constants.                                                      *)
(***************************************************************************)
EINTR == 4
EISCONN == 106
EINPROGRESS == 115
EAI_SYSTEM == 11
EAI_NODATA == 7
O_NONBLOCK == 2048
\* a status flag other than O_NONBLOCK that F_GETFL reports (access mode)
O_RDWR == 2
\* GetSystemTick runs at 19.2 MHz: (tick * 625) / 12 nanoseconds
TickMul == 625
TickDiv == 12
NanosPerMilli == 1000000
NanosPerSec == 1000000000
MillisPerSec == 1000
\* ticks in one clock step of the model: half a millisecond
TicksPerStep == 9600
\* c_int::MAX
CIntMax == 2147483647

\* errno values the OS may leave behind; 1 is what cvt makes of a bare -1
Errnos == {EINTR, EISCONN, EINPROGRESS, 111}

(***************************************************************************)
(* Option and io::Result values.                                           *)
(***************************************************************************)
None == <<>>
Some(x) == <<x>>

Ok(v) == [ok |-> TRUE, val |-> v, kind |-> "None", raw |-> None]

\* sys/io/error/switch.rs: every OS code decodes to Uncategorized
decode_error_kind(code) == "Uncategorized"

\* sys/io/error/switch.rs: no OS code is an interruption
is_interrupted(code) == FALSE

\* io::Error::from_raw_os_error(code); kind() goes through decode_error_kind
ErrOs(code) == [ok |-> FALSE, val |-> 0, kind |-> decode_error_kind(code), raw |-> Some(code)]

\* io::Error::new(kind, msg) and io::Error::from(kind): no raw OS code
ErrKind(k) == [ok |-> FALSE, val |-> 0, kind |-> k, raw |-> None]

\* io::Error::is_interrupted: an OS error asks the platform, a simple or
\* custom error compares its kind
ErrIsInterrupted(e) ==
    IF e.raw # None THEN is_interrupted(e.raw[1]) ELSE e.kind = "Interrupted"

(***************************************************************************)
(* Status layer: cvt and the step of cvt_r.                                *)
(***************************************************************************)
IsNegative(t) == t < 0
Negate(t) == 0 - t
IsMinusOne(t) == t = 0 - 1

cvt(t) == IF IsNegative(t) THEN ErrOs(Negate(t)) ELSE Ok(t)

\* one turn of cvt_r's loop on the value f returned: TRUE when it goes round
CvtRRetries(t) == LET r == cvt(t) IN (~r.ok) /\ ErrIsInterrupted(r)

(***************************************************************************)
(* Bit operations on the descriptor's status flags (two flags are enough). *)
(***************************************************************************)
HasBit(x, b) == (x \div b) % 2 = 1
BitOr(x, b) == IF HasBit(x, b) THEN x ELSE x + b
BitClear(x, b) == IF HasBit(x, b) THEN x - b ELSE x

Min(a, b) == IF a <= b THEN a ELSE b

(***************************************************************************)
(* Clock: Instant::now and the Duration arithmetic connect_timeout uses.   *)
(* A Duration and an Instant are a number of nanoseconds.                  *)
(***************************************************************************)
\* u64::MAX of saturating_mul / saturating_add, as far as TLC's integers
\* go; no duration of the model comes near it
WordMax == 2147483647

InstantNow(t) == (t * TickMul) \div TickDiv
\* Instant::elapsed: now - start, zero when the clock went backwards
Elapsed(s, now) == IF now >= s THEN now - s ELSE 0

AsSecs(d) == d \div NanosPerSec
SubsecNanos(d) == d % NanosPerSec
\* u64::saturating_mul and saturating_add, u64::MAX being max
SaturatingMulAt(a, b, max) == IF b # 0 /\ a > max \div b THEN max ELSE a * b
SaturatingAddAt(a, b, max) == IF a > max - b THEN max ELSE a + b
SaturatingMul(a, b) == SaturatingMulAt(a, b, WordMax)
SaturatingAdd(a, b) == SaturatingAddAt(a, b, WordMax)

\* `as c_int` on an unsigned value, c_int::MAX being cmax: the value modulo
\* 2 * (cmax + 1), taken as signed
AsCInt(v, cmax) ==
    IF v <= cmax THEN v
    ELSE ((v + cmax + 1) % (2 * (cmax + 1))) - (cmax + 1)

\* the wait without cmp::min
PollWaitAtNoClamp(secs, nanos, umax, cmax) ==
    LET ms0 == SaturatingAddAt(SaturatingMulAt(secs, MillisPerSec, umax),
                               nanos \div NanosPerMilli, umax)
        ms  == IF ms0 = 0 THEN 1 ELSE ms0
    IN  AsCInt(ms, cmax)

\* the wait, in milliseconds, connect_timeout hands to poll for a remaining
\* time of secs seconds and nanos nanoseconds, u64::MAX being umax and
\* c_int::MAX being cmax
PollWaitAt(secs, nanos, umax, cmax) ==
    LET ms0 == SaturatingAddAt(SaturatingMulAt(secs, MillisPerSec, umax),
                               nanos \div NanosPerMilli, umax)
        ms  == IF ms0 = 0 THEN 1 ELSE ms0
    IN  AsCInt(Min(ms, cmax), cmax)

\* the same for `remaining` nanoseconds, at the widths of TLC's integers
PollWaitMs(remaining) ==
    PollWaitAt(AsSecs(remaining), SubsecNanos(remaining), WordMax, CIntMax)

\* nanoseconds in one clock step of the model, and steps in a millisecond
StepNanos == InstantNow(TicksPerStep)
StepsPerMilli == NanosPerMilli \div StepNanos

(***************************************************************************)
(* State.                                                                  *)
(***************************************************************************)
VARIABLES
    pc,           \* where the calling thread is: "idle", a step of an operation, "done"
    op,           \* the operation in progress
    flags,        \* the socket descriptor's file status flags (F_GETFL / F_SETFL)
    errno,        \* the thread's errno
    tick,         \* the hardware tick counter (GetSystemTick)
    netAvailable, \* what nn::nifm::IsNetworkAvailable reports
    onHold,       \* what nn::nifm::IsNetworkRequestOnHold reports
    sotimeo,      \* the socket's SO_RCVTIMEO / SO_SNDTIMEO, each <<tv_sec, tv_usec>>
    openFds,      \* descriptors open besides the socket's own
    fdt,          \* the descriptors of Socket::new / new_pair: which are open,
                  \* marked close-on-exec, owned by a Socket, held raw by the
                  \* caller, and which were closed when they should not be
    oslog,        \* the OS calls the operation in progress has issued, in order
    result,       \* the io::Result the finished operation returned
    timeout,      \* connect_timeout: the timeout argument
    start,        \* connect_timeout: `start`
    r,            \* connect_timeout: `r`; accept: the converted descriptor
    wait,         \* connect_timeout: the wait passed to the poll in flight
    entryFlags,   \* the status flags when the operation was entered
    arg,          \* the operation's argument, as the caller passed it
    hist          \* what the calls returned so far left behind: the argument of
                  \* the last call if it was a successful set_nonblocking, and
                  \* the duration each direction's timeout was last set to

vars == <<pc, op, flags, errno, tick, netAvailable, onHold, sotimeo, openFds, fdt,
          oslog, result, timeout, start, r, wait, entryFlags, arg, hist>>

\* the descriptor the OS hands out to a successful accept
NewFd == 4

Now == InstantNow(tick)

\* one entry of oslog
Call(name, a, ret, e, t0, t1) ==
    [call |-> name, arg |-> a, ret |-> ret, err |-> e, t0 |-> t0, t1 |-> t1]

\* entries of oslog that are calls of `name`
CallsOf(name) == SelectSeq(oslog, LAMBDA c : c.call = name)

\* a logged call the OS failed with EINTR (err is the code the call reported:
\* errno after a -1, the negated return value otherwise)
IsInterruption(c) == c.ret < 0 /\ c.err = EINTR

\* interruptions the OS has delivered to the operation in progress
Interrupts == Len(SelectSeq(oslog, IsInterruption))

\* errno values a failing call of the operation in progress may set
FailErrnos == IF Interrupts < MaxInterrupts THEN Errnos ELSE Errnos \ {EINTR}

NoTimeval == <<0, 0>>

Init ==
    /\ pc = "idle"
    /\ op = "none"
    /\ flags = O_RDWR
    /\ errno \in {0, EINTR}
    /\ tick = 0
    /\ netAvailable = TRUE
    /\ onHold = FALSE
    /\ sotimeo = [rcv |-> NoTimeval, snd |-> NoTimeval]
    /\ openFds = {}
    /\ fdt = [open |-> {}, cloexec |-> {}, owned |-> {}, raw |-> {}, misclosed |-> {}]
    /\ oslog = <<>>
    /\ result = Ok(0)
    /\ timeout = 0
    /\ start = 0
    /\ r = Ok(0)
    /\ wait = 0
    /\ entryFlags = O_RDWR
    /\ arg = None
    /\ hist = [nb |-> None, timeo |-> [rcv |-> None, snd |-> None]]

\* what every call sets up
Enter(name, a, firstPc) ==
    /\ pc = "idle"
    /\ pc' = firstPc
    /\ op' = name
    /\ arg' = a
    /\ oslog' = <<>>
    /\ entryFlags' = flags
    /\ result' = Ok(0)

\* what every return of an operation sets
Finish(res) ==
    /\ pc' = "done"
    /\ result' = res

(***************************************************************************)
(* Socket::set_nonblocking, as a step other operations take too.           *)
(* getRet is what fcntl(F_GETFL) returns, setRet what fcntl(F_SETFL) would.*)
(***************************************************************************)
NonblockingNew(previous, nonblocking) ==
    IF nonblocking THEN BitOr(previous, O_NONBLOCK) ELSE BitClear(previous, O_NONBLOCK)

\* F_SETFL issued whether or not the flags change
NonblockingChangesAlways(new, previous) == TRUE

\* whether set_nonblocking goes on to F_SETFL
NonblockingChanges(new, previous) == new # previous

\* the descriptor's flags after a successful F_SETFL with `new`
SetFl(new) == new

SetNonblocking(nonblocking, getRet, setRet, e, okPc, okResult) ==
    LET previous == cvt(getRet)
        new      == NonblockingNew(previous.val, nonblocking)
        getfl    == Call("fcntl_getfl", None, getRet, e, Now, Now)
        setfl    == Call("fcntl_setfl", Some(new), setRet, e, Now, Now)
    IN  IF ~previous.ok
        THEN /\ oslog' = Append(oslog, getfl)
             /\ errno' = e
             /\ flags' = flags
             /\ Finish(previous)
        ELSE IF NonblockingChanges(new, previous.val)
        THEN /\ oslog' = oslog \o <<getfl, setfl>>
             /\ IF cvt(setRet).ok
                THEN /\ flags' = SetFl(new)
                     /\ errno' = errno
                     /\ pc' = okPc
                     /\ result' = okResult
                ELSE /\ flags' = flags
                     /\ errno' = e
                     /\ Finish(cvt(setRet))
        ELSE /\ oslog' = Append(oslog, getfl)
             /\ flags' = flags
             /\ errno' = errno
             /\ pc' = okPc
             /\ result' = okResult

\* the results the OS can give the two fcntl calls: the flags or a failure,
\* and zero or a failure
GetFlRets == {flags, 0 - 1}
SetFlRets == {0, 0 - 1}

\* errno after a failed fcntl (EBADF)
FcntlErrnos == {9}

\* every way the OS can answer the fcntl calls of one set_nonblocking:
\* <<what F_GETFL returns, what F_SETFL returns, errno afterwards>>
FcntlAnswers ==
    {a \in GetFlRets \X SetFlRets \X (FcntlErrnos \cup {errno}) :
        a[3] \in (IF a[1] < 0 \/ a[2] < 0 THEN FcntlErrnos ELSE {errno})}

CallSetNonblocking ==
    /\ \E b \in BOOLEAN : Enter("set_nonblocking", Some(b), "nb_body")
    /\ UNCHANGED <<flags, errno, tick, netAvailable, onHold, hist, sotimeo, openFds, fdt,
                   timeout, start, r, wait>>

NB_Body ==
    /\ pc = "nb_body"
    /\ \E a \in FcntlAnswers : SetNonblocking(arg[1], a[1], a[2], a[3], "done", Ok(0))
    /\ UNCHANGED <<op, tick, netAvailable, onHold, hist, sotimeo, openFds, fdt, timeout, start, r,
                   wait, entryFlags, arg>>

(***************************************************************************)
(* Socket::connect_timeout.                                                *)
(***************************************************************************)
\* timeouts the caller passes: whole clock steps, zero included
Timeouts == {k * StepNanos : k \in 0..MaxTimeoutSteps}

\* what the OS connect call can return: done, -1 with errno set, or the
\* negated error code that cvt turns into that raw OS error
ConnectRets == {0, 0 - 1, 0 - EINPROGRESS, 0 - EISCONN}

\* the error code a call reported: errno after -1, else the negated return
Reported(ret, e) == IF ret >= 0 THEN 0 ELSE IF IsMinusOne(ret) THEN e ELSE Negate(ret)

CallConnectTimeout ==
    /\ \E t \in Timeouts :
          /\ tick + TicksPerStep * ((t \div StepNanos) + StepsPerMilli)
                <= TicksPerStep * MaxClockSteps
          /\ Enter("connect_timeout", Some(t), "ct_nonblock")
          /\ timeout' = t
    /\ UNCHANGED <<flags, errno, tick, netAvailable, onHold, hist, sotimeo, openFds, fdt, start, r, wait>>

\* self.set_nonblocking(true)?
CT_SetNonblocking ==
    /\ pc = "ct_nonblock"
    /\ \E a \in FcntlAnswers : SetNonblocking(TRUE, a[1], a[2], a[3], "ct_connect", result)
    /\ UNCHANGED <<op, tick, netAvailable, onHold, hist, sotimeo, openFds, fdt, timeout, start, r,
                   wait, entryFlags, arg>>

\* let r = cvt(libc::connect(..))
CT_Connect ==
    /\ pc = "ct_connect"
    /\ \E ret \in ConnectRets :
         \E e \in IF IsMinusOne(ret) THEN FailErrnos ELSE {errno} :
            /\ r' = cvt(ret)
            /\ errno' = e
            /\ oslog' = Append(oslog, Call("connect", None, ret, Reported(ret, e), Now, Now))
    /\ pc' = "ct_restore"
    /\ UNCHANGED <<op, flags, tick, netAvailable, onHold, hist, sotimeo, openFds, fdt, result,
                   timeout, start, wait, entryFlags, arg>>

\* self.set_nonblocking(false)?
CT_Restore ==
    /\ pc = "ct_restore"
    /\ \E a \in FcntlAnswers : SetNonblocking(FALSE, a[1], a[2], a[3], "ct_match", result)
    /\ UNCHANGED <<op, tick, netAvailable, onHold, hist, sotimeo, openFds, fdt, timeout, start, r,
                   wait, entryFlags, arg>>

\* the match on r: TRUE when connect_timeout goes on to wait for the connection
ConnectInProgress(res) == (~res.ok) /\ res.raw = Some(EINPROGRESS)

\* the zero-duration test
IsZeroDuration(d) == AsSecs(d) = 0 /\ SubsecNanos(d) = 0

\* match r { .. }, the zero-duration test, let start = Instant::now()
CT_Match ==
    /\ pc = "ct_match"
    /\ IF r.ok
       THEN Finish(Ok(0)) /\ start' = start
       ELSE IF ~ConnectInProgress(r)
       THEN Finish(r) /\ start' = start
       ELSE IF IsZeroDuration(timeout)
       THEN Finish(ErrKind("InvalidInput")) /\ start' = start
       ELSE /\ start' = Now
            /\ pc' = "ct_loop"
            /\ result' = result
    /\ UNCHANGED <<op, flags, errno, tick, netAvailable, onHold, hist, sotimeo, openFds, fdt, oslog,
                   timeout, r, wait, entryFlags, arg>>

\* the deadline test with the comparison off by one
DeadlinePassedLate(elapsed, t) == elapsed > t

\* the deadline test at the head of the loop
DeadlinePassed(elapsed, t) == elapsed >= t

\* head of the loop: the deadline test and the wait for the next poll
CT_LoopHead ==
    /\ pc = "ct_loop"
    /\ LET elapsed == Elapsed(start, Now)
       IN  IF DeadlinePassed(elapsed, timeout)
           THEN Finish(ErrKind("TimedOut")) /\ wait' = wait
           ELSE /\ wait' = PollWaitMs(timeout - elapsed)
                /\ pc' = "ct_poll"
                /\ result' = result
    /\ UNCHANGED <<op, flags, errno, tick, netAvailable, onHold, hist, sotimeo, openFds, fdt, oslog,
                   timeout, start, r, entryFlags, arg>>

\* what poll may leave in pollfd.revents when it reports the descriptor
\* ready: writable, or the three bits a refused connection gives
Revents == {{"POLLOUT"}, {"POLLOUT", "POLLERR", "POLLHUP"}, {"POLLERR"}}

\* the loop with the POLLHUP test the source has commented out
PollOutcomeChecksHup(n, e, revents) ==
    IF IsMinusOne(n)
    THEN IF ErrOs(e).kind # "Interrupted" THEN Some(ErrOs(e)) ELSE None
    ELSE IF n = 0 THEN None
    ELSE IF "POLLHUP" \in revents THEN Some(ErrKind("Other"))
    ELSE Some(Ok(0))

\* what connect_timeout does with poll's return value n, errno being e and
\* pollfd.revents being revents: a result to return, or nothing to go round
\* the loop
PollOutcome(n, e, revents) ==
    IF IsMinusOne(n)
    THEN IF ErrOs(e).kind # "Interrupted" THEN Some(ErrOs(e)) ELSE None
    ELSE IF n = 0 THEN None
    ELSE Some(Ok(0))

\* libc::poll(&mut pollfd, 1, timeout): the OS answers within the wait it
\* was given, and answers 0 only when the whole wait has passed
CT_Poll ==
    /\ pc = "ct_poll"
    /\ \E n \in {0 - 1, 0, 1}, d \in 0..(wait * StepsPerMilli) :
         \E e \in IF IsMinusOne(n) THEN FailErrnos ELSE {errno} :
           \E revents \in IF n > 0 THEN Revents ELSE {{}} :
            /\ n = 0 => d = wait * StepsPerMilli
            /\ tick' = tick + d * TicksPerStep
            /\ errno' = e
            /\ oslog' = Append(oslog,
                               Call("poll", Some(wait), n, Reported(n, e),
                                    Now, InstantNow(tick + d * TicksPerStep))
                               @@ [revents |-> revents])
            /\ IF PollOutcome(n, e, revents) = None
               THEN pc' = "ct_loop" /\ result' = result
               ELSE Finish(PollOutcome(n, e, revents)[1])
    /\ UNCHANGED <<op, flags, netAvailable, onHold, hist, sotimeo, openFds, fdt, timeout, start, r,
                   wait, entryFlags, arg>>

(***************************************************************************)
(* Socket::connect (blocking).                                             *)
(***************************************************************************)
\* connect's loop without the "already connected" case
ConnectOutcomeNoIsconn(ret, e) ==
    IF (ret = 0 - 1)
    THEN IF e = EINTR THEN None ELSE Some(ErrOs(e))
    ELSE Some(Ok(0))

\* one turn of connect's loop on the OS result `ret`, errno being e:
\* nothing to call connect again, or the result to return
ConnectOutcome(ret, e) ==
    IF IsMinusOne(ret)
    THEN IF e = EINTR THEN None
         ELSE IF e = EISCONN THEN Some(Ok(0))
         ELSE Some(ErrOs(e))
    ELSE Some(Ok(0))

CallConnect ==
    /\ Enter("connect", None, "cn_loop")
    /\ UNCHANGED <<flags, errno, tick, netAvailable, onHold, hist, sotimeo, openFds, fdt,
                   timeout, start, r, wait>>

CN_Connect ==
    /\ pc = "cn_loop"
    /\ \E ret \in ConnectRets :
         \E e \in IF IsMinusOne(ret) THEN FailErrnos ELSE {errno} :
            /\ errno' = e
            /\ oslog' = Append(oslog, Call("connect", None, ret, Reported(ret, e), Now, Now))
            /\ IF ConnectOutcome(ret, e) = None
               THEN pc' = "cn_loop" /\ result' = result
               ELSE Finish(ConnectOutcome(ret, e)[1])
    /\ UNCHANGED <<op, flags, tick, netAvailable, onHold, hist, sotimeo, openFds, fdt, timeout,
                   start, r, wait, entryFlags, arg>>

(***************************************************************************)
(* cvt_r(f), f being any function of the caller: each invocation returns   *)
(* a value of FRets.                                                       *)
(***************************************************************************)
\* values f returns: interrupted (either convention), another failure, successes
FRets == {0 - EINTR, 0 - 1, 0 - EISCONN, 0, 5}

CallCvtR ==
    /\ Enter("cvt_r", None, "cr_loop")
    /\ UNCHANGED <<flags, errno, tick, netAvailable, onHold, hist, sotimeo, openFds, fdt,
                   timeout, start, r, wait>>

CR_Invoke ==
    /\ pc = "cr_loop"
    /\ \E t \in FRets :
         \E e \in IF IsMinusOne(t) THEN FailErrnos
                  ELSE IF t = 0 - EINTR /\ Interrupts >= MaxInterrupts THEN {}
                  ELSE {errno} :
            /\ errno' = e
            /\ oslog' = Append(oslog, Call("f", None, t, Reported(t, e), Now, Now))
            /\ IF CvtRRetries(t)
               THEN pc' = "cr_loop" /\ result' = result
               ELSE Finish(cvt(t))
    /\ UNCHANGED <<op, flags, tick, netAvailable, onHold, hist, sotimeo, openFds, fdt, timeout,
                   start, r, wait, entryFlags, arg>>

(***************************************************************************)
(* Socket::accept.                                                         *)
(***************************************************************************)
\* what the OS accept call can return: a new descriptor or a failure
AcceptRets == {NewFd, 0 - 1, 0 - EINTR}

CallAccept ==
    /\ Enter("accept", None, "ac_loop")
    /\ UNCHANGED <<flags, errno, tick, netAvailable, onHold, hist, sotimeo, openFds, fdt,
                   timeout, start, r, wait>>

\* cvt_r(|| libc::accept(..))?  and  FileDesc::new(fd)
AC_Accept ==
    /\ pc = "ac_loop"
    /\ \E t \in AcceptRets :
         \E e \in IF IsMinusOne(t) THEN FailErrnos
                  ELSE IF t = 0 - EINTR /\ Interrupts >= MaxInterrupts THEN {}
                  ELSE {errno} :
            /\ errno' = e
            /\ oslog' = Append(oslog, Call("accept", None, t, Reported(t, e), Now, Now))
            /\ IF CvtRRetries(t)
               THEN pc' = "ac_loop" /\ result' = result /\ UNCHANGED <<r, openFds>>
               ELSE IF cvt(t).ok
               THEN /\ r' = cvt(t)
                    /\ openFds' = openFds \cup {t}
                    /\ pc' = "ac_cloexec"
                    /\ result' = result
               ELSE Finish(cvt(t)) /\ UNCHANGED <<r, openFds>>
    /\ UNCHANGED <<op, flags, tick, netAvailable, onHold, hist, sotimeo, timeout, start, wait,
                   entryFlags, arg, fdt>>

\* fd.set_cloexec()?  and  Ok(Socket(fd)); a failure drops the FileDesc
AC_Cloexec ==
    /\ pc = "ac_cloexec"
    /\ \E ret \in {0, 0 - 1} :
         \E e \in IF ret < 0 THEN FcntlErrnos ELSE {errno} :
            /\ errno' = e
            /\ oslog' = Append(oslog, Call("set_cloexec", Some(r.val), ret,
                                           Reported(ret, e), Now, Now))
            /\ IF ret < 0
               THEN Finish(ErrOs(e)) /\ openFds' = openFds \ {r.val}
               ELSE Finish(Ok(r.val)) /\ openFds' = openFds
    /\ UNCHANGED <<op, flags, tick, netAvailable, onHold, hist, sotimeo, timeout, start, r,
                   wait, entryFlags, arg, fdt>>

(***************************************************************************)
(* cvt_gai, and the network coming and going.                              *)
(***************************************************************************)
\* resolver codes tried: success, the two special codes, two others
GaiCodes == {0, EAI_SYSTEM, EAI_NODATA, 2, 8, 0 - 2}

\* the classification of code 7 with the probe's answer read the wrong way
NoDataErrorInverted(available) ==
    IF available THEN ErrKind("NetworkDown") ELSE ErrKind("Other")

\* the error cvt_gai makes of code 7, given what the probe reports
NoDataError(available) ==
    IF ~available THEN ErrKind("NetworkDown") ELSE ErrKind("Other")

\* the result of cvt_gai(err) when the probe reports `available` and errno is e
cvt_gai(err, available, e) ==
    IF err = 0 THEN Ok(0)
    ELSE IF err = EAI_SYSTEM THEN ErrOs(e)
    ELSE IF err = EAI_NODATA THEN NoDataError(available)
    ELSE ErrKind("Other")

\* the probe queried for every failure
GaiCallsProbeAlways(err, available) ==
    IF err = 0 THEN <<>>
    ELSE <<Call("on_resolver_failure", None, 0, 0, Now, Now),
           Call("IsNetworkAvailable", None, IF available THEN 1 ELSE 0, 0, Now, Now)>> \o
         (IF err = EAI_SYSTEM \/ err = EAI_NODATA THEN <<>>
          ELSE <<Call("gai_strerror", Some(err), 0, 0, Now, Now)>>)

\* the calls cvt_gai(err) makes, in order
GaiCalls(err, available) ==
    IF err = 0 THEN <<>>
    ELSE <<Call("on_resolver_failure", None, 0, 0, Now, Now)>> \o
         (IF err = EAI_SYSTEM THEN <<>>
          ELSE IF err = EAI_NODATA
          THEN <<Call("IsNetworkAvailable", None, IF available THEN 1 ELSE 0, 0, Now, Now)>>
          ELSE <<Call("gai_strerror", Some(err), 0, 0, Now, Now)>>)

CallCvtGai ==
    /\ \E code \in GaiCodes : Enter("cvt_gai", Some(code), "gai_body")
    /\ UNCHANGED <<flags, errno, tick, netAvailable, onHold, hist, sotimeo, openFds, fdt,
                   timeout, start, r, wait>>

GAI_Body ==
    /\ pc = "gai_body"
    /\ oslog' = oslog \o GaiCalls(arg[1], netAvailable)
    /\ Finish(cvt_gai(arg[1], netAvailable, errno))
    /\ UNCHANGED <<op, flags, errno, tick, netAvailable, onHold, hist, sotimeo, openFds, fdt,
                   timeout, start, r, wait, entryFlags, arg>>

\* the network goes down or comes up between two calls
NetworkChange ==
    /\ pc = "idle"
    /\ netAvailable' = ~netAvailable
    /\ UNCHANGED <<pc, op, flags, errno, tick, onHold, sotimeo, openFds, fdt, oslog,
                   result, timeout, start, r, wait, entryFlags, arg, hist>>

(***************************************************************************)
(* Socket::set_timeout.                                                    *)
(***************************************************************************)
\* A Duration here is <<seconds, nanoseconds below a second>>.  Its seconds
\* are a u64 and time_t is an i64; the model keeps that one bit of
\* difference at a width TLC can count in.
SecsBits == 3
\* u64::MAX and time_t::MAX at that width
SecsMax == 2^SecsBits - 1
TimeTMax == 2^(SecsBits - 1) - 1
NanosPerMicro == 1000

as_secs(d) == d[1]
subsec_nanos(d) == d[2]
subsec_micros(d) == subsec_nanos(d) \div NanosPerMicro

\* durations the caller passes: zero, below a microsecond, a microsecond,
\* above a second, and with more seconds than a time_t holds
Durations ==
    {<<0, 0>>, <<0, 500>>, <<0, NanosPerMicro>>, <<1, 500000>>,
     <<TimeTMax + 1, 0>>, <<SecsMax, NanosPerSec - 1>>}
TimeoutKinds == {"rcv", "snd"}

\* the timeval without the step away from <<0, 0>>
TimevalOfNoNudge(dur) ==
    <<IF as_secs(dur) > TimeTMax THEN TimeTMax ELSE as_secs(dur), subsec_micros(dur)>>

\* the timeval set_timeout builds for Some(dur), dur not zero
TimevalOf(dur) ==
    LET secs == IF as_secs(dur) > TimeTMax THEN TimeTMax ELSE as_secs(dur)
        usec == subsec_micros(dur)
    IN  IF secs = 0 /\ usec = 0 THEN <<0, 1>> ELSE <<secs, usec>>

\* the rejection with the test of the nanoseconds the wrong way round
TimeoutRejectedInverted(dur) ==
    dur # None /\ as_secs(dur[1]) = 0 /\ subsec_nanos(dur[1]) # 0

\* whether set_timeout rejects its argument before any call
TimeoutRejected(dur) ==
    dur # None /\ as_secs(dur[1]) = 0 /\ subsec_nanos(dur[1]) = 0

CallSetTimeout ==
    /\ \E d \in {None} \cup {Some(x) : x \in Durations}, k \in TimeoutKinds :
          Enter("set_timeout", <<d, k>>, "st_body")
    /\ UNCHANGED <<flags, errno, tick, netAvailable, onHold, hist, sotimeo, openFds, fdt,
                   timeout, start, r, wait>>

ST_Body ==
    /\ pc = "st_body"
    /\ LET dur  == arg[1]
           kind == arg[2]
       IN  IF TimeoutRejected(dur)
           THEN /\ Finish(ErrKind("InvalidInput"))
                /\ UNCHANGED <<sotimeo, oslog, errno>>
           ELSE LET tv == IF dur = None THEN NoTimeval ELSE TimevalOf(dur[1])
                IN  \E ret \in {0, 0 - 1} :
                      \E e \in IF ret < 0 THEN FcntlErrnos ELSE {errno} :
                        /\ errno' = e
                        /\ oslog' = Append(oslog, Call("setsockopt", Some(tv), ret,
                                                       Reported(ret, e), Now, Now))
                        /\ IF ret < 0
                           THEN Finish(ErrOs(e)) /\ sotimeo' = sotimeo
                           ELSE /\ Finish(Ok(0))
                                /\ sotimeo' = [sotimeo EXCEPT ![kind] = tv]
    /\ UNCHANGED <<op, flags, tick, netAvailable, onHold, hist, openFds, fdt, timeout, start, r,
                   wait, entryFlags, arg>>

(***************************************************************************)
(* Socket::timeout.                                                        *)
(***************************************************************************)
\* what timeout makes of the timeval getsockopt hands back
TimeoutOf(raw) ==
    IF raw[1] = 0 /\ raw[2] = 0
    THEN None
    ELSE Some(<<raw[1], raw[2] * NanosPerMicro>>)

CallTimeout ==
    /\ \E k \in TimeoutKinds : Enter("timeout", Some(k), "to_body")
    /\ UNCHANGED <<flags, errno, tick, netAvailable, onHold, hist, sotimeo, openFds, fdt,
                   timeout, start, r, wait>>

TO_Body ==
    /\ pc = "to_body"
    /\ \E ret \in {0, 0 - 1} :
         \E e \in IF ret < 0 THEN FcntlErrnos ELSE {errno} :
            /\ errno' = e
            /\ oslog' = Append(oslog, Call("getsockopt", arg, ret, Reported(ret, e),
                                           Now, Now))
            /\ IF ret < 0
               THEN Finish(ErrOs(e))
               ELSE Finish(Ok(TimeoutOf(sotimeo[arg[1]])))
    /\ UNCHANGED <<op, flags, tick, netAvailable, onHold, hist, sotimeo, openFds, fdt,
                   timeout, start, r, wait, entryFlags, arg>>

(***************************************************************************)
(* Socket::set_linger and Socket::linger.                                  *)
(***************************************************************************)
unsupported_err == ErrKind("Unsupported")
unsupported == unsupported_err

\* set_linger taken to be a no-op that succeeds
set_lingerIgnored(l) == Ok(0)

\* what set_linger(l) and linger() return
set_linger(l) == unsupported
linger == unsupported

CallSetLinger ==
    /\ \E l \in {None} \cup {Some(d) : d \in Durations} :
          Enter("set_linger", <<l>>, "sl_body")
    /\ UNCHANGED <<flags, errno, tick, netAvailable, onHold, hist, sotimeo, openFds, fdt,
                   timeout, start, r, wait>>

SL_Body ==
    /\ pc = "sl_body"
    /\ Finish(set_linger(arg[1]))
    /\ UNCHANGED <<op, flags, errno, tick, netAvailable, onHold, hist, sotimeo,
                   openFds, fdt, oslog, timeout, start, r, wait, entryFlags, arg>>

CallLinger ==
    /\ Enter("linger", None, "lg_body")
    /\ UNCHANGED <<flags, errno, tick, netAvailable, onHold, hist, sotimeo, openFds, fdt,
                   timeout, start, r, wait>>

LG_Body ==
    /\ pc = "lg_body"
    /\ Finish(linger)
    /\ UNCHANGED <<op, flags, errno, tick, netAvailable, onHold, hist, sotimeo,
                   openFds, fdt, oslog, timeout, start, r, wait, entryFlags, arg>>

(***************************************************************************)
(* sys/time/switch.rs: Instant and SystemTime wrap a Duration, here the    *)
(* pair <<seconds, nanoseconds>> with seconds of SecsBits bits.            *)
(* Duration's own checked arithmetic is core-library code.                 *)
(***************************************************************************)
NanosSamples == {0, 1, NanosPerSec \div 2, NanosPerSec - 1}
AllDurations == (0..SecsMax) \X NanosSamples

\* Duration::checked_add: None when the seconds overflow
DurationCheckedAdd(a, b) ==
    LET n     == subsec_nanos(a) + subsec_nanos(b)
        carry == IF n >= NanosPerSec THEN 1 ELSE 0
        s     == as_secs(a) + as_secs(b) + carry
    IN  IF s > SecsMax THEN None ELSE Some(<<s, n - carry * NanosPerSec>>)

\* Duration::checked_sub: None when the difference would be negative
DurationCheckedSub(a, b) ==
    LET borrow == IF subsec_nanos(a) < subsec_nanos(b) THEN 1 ELSE 0
    IN  IF as_secs(a) < as_secs(b) + borrow
        THEN None
        ELSE Some(<<as_secs(a) - as_secs(b) - borrow,
                    subsec_nanos(a) + borrow * NanosPerSec - subsec_nanos(b)>>)

\* Instant::checked_sub_instant
checked_sub_instant(self, other) == DurationCheckedSub(self, other)

\* Instant::checked_add_duration: Some(Instant(self.0.checked_add(*other)?))
checked_add_duration(self, other) ==
    LET sum == DurationCheckedAdd(self, other)
    IN  IF sum = None THEN None ELSE Some(sum[1])

\* checked_sub_duration adding instead of subtracting
checked_sub_durationAdds(self, other) == checked_add_duration(self, other)

\* Instant::checked_sub_duration: Some(Instant(self.0.checked_sub(*other)?))
checked_sub_duration(self, other) ==
    LET diff == DurationCheckedSub(self, other)
    IN  IF diff = None THEN None ELSE Some(diff[1])

\* the outcome of a sub_time whose `other.0 - self.0` panics
SubTimePanic == [ok |-> FALSE, val |-> <<0, 0>>, panic |-> TRUE]

\* sub_time with the operands of the failure payload the other way round
sub_timeSwapped(self, other) ==
    LET diff == DurationCheckedSub(self, other)
        back == DurationCheckedSub(self, other)
    IN  IF diff # None THEN [ok |-> TRUE, val |-> diff[1], panic |-> FALSE]
        ELSE IF back = None THEN SubTimePanic
        ELSE [ok |-> FALSE, val |-> back[1], panic |-> FALSE]

\* SystemTime::sub_time:
\* self.0.checked_sub(other.0).ok_or_else(|| other.0 - self.0);
\* Duration's `-` panics when its checked_sub is None
sub_time(self, other) ==
    LET diff == DurationCheckedSub(self, other)
        back == DurationCheckedSub(other, self)
    IN  IF diff # None THEN [ok |-> TRUE, val |-> diff[1], panic |-> FALSE]
        ELSE IF back = None THEN SubTimePanic
        ELSE [ok |-> FALSE, val |-> back[1], panic |-> FALSE]

\* x.checked_add_duration(&d) and then .checked_sub_duration(&d) on its result
CallInstantRoundTrip ==
    /\ \E x \in AllDurations : \E d \in AllDurations :
          Enter("instant_round_trip", <<x, d>>, "ir_add")
    /\ UNCHANGED <<flags, errno, tick, netAvailable, onHold, hist, sotimeo, openFds, fdt,
                   timeout, start, r, wait>>

IR_Add ==
    /\ pc = "ir_add"
    /\ LET sum == checked_add_duration(arg[1], arg[2])
       IN  /\ r' = Ok(sum)
           /\ IF sum = None
              THEN Finish(Ok(None))
              ELSE pc' = "ir_sub" /\ UNCHANGED result
    /\ UNCHANGED <<op, arg, oslog, entryFlags, flags, errno, tick, netAvailable,
                   onHold, hist, sotimeo, openFds, fdt, timeout, start, wait>>

IR_Sub ==
    /\ pc = "ir_sub"
    /\ Finish(Ok(checked_sub_duration(r.val[1], arg[2])))
    /\ UNCHANGED <<op, arg, oslog, entryFlags, flags, errno, tick, netAvailable,
                   onHold, hist, sotimeo, openFds, fdt, timeout, start, r, wait>>

\* x.checked_sub_duration(&d)
CallCheckedSubDuration ==
    /\ \E x \in AllDurations : \E d \in AllDurations :
          Enter("checked_sub_duration", <<x, d>>, "csd_body")
    /\ UNCHANGED <<flags, errno, tick, netAvailable, onHold, hist, sotimeo, openFds, fdt,
                   timeout, start, r, wait>>

CSD_Body ==
    /\ pc = "csd_body"
    /\ Finish(Ok(checked_sub_duration(arg[1], arg[2])))
    /\ UNCHANGED <<op, arg, oslog, entryFlags, flags, errno, tick, netAvailable,
                   onHold, hist, sotimeo, openFds, fdt, timeout, start, r, wait>>

\* a.sub_time(&b)
CallSubTime ==
    /\ \E a \in AllDurations : \E b \in AllDurations :
          Enter("sub_time", <<a, b>>, "sub_body")
    /\ UNCHANGED <<flags, errno, tick, netAvailable, onHold, hist, sotimeo, openFds, fdt,
                   timeout, start, r, wait>>

SUB_Body ==
    /\ pc = "sub_body"
    /\ Finish(sub_time(arg[1], arg[2]))
    /\ UNCHANGED <<op, arg, oslog, entryFlags, flags, errno, tick, netAvailable,
                   onHold, hist, sotimeo, openFds, fdt, timeout, start, r, wait>>

(***************************************************************************)
(* pal/switch/mod.rs: cvt at each width IsNegative is implemented for.     *)
(* A byte has ByteBits bits here, so every width keeps its place relative  *)
(* to i32.  overflowChecks is the build's choice for `-` on the minimum    *)
(* value: panic, or wrap round to the minimum value.                       *)
(***************************************************************************)
ByteBits == 2
Bytes == [i8 |-> 1, i16 |-> 2, i32 |-> 4, i64 |-> 8, isize |-> 8]
Widths == DOMAIN Bytes
MinOf(w) == 0 - 2^(Bytes[w] * ByteBits - 1)
MaxOf(w) == 2^(Bytes[w] * ByteBits - 1) - 1

\* values worth converting at width w: the ends of w, the ends of i32 and
\* their neighbours, and the values round zero
CvtSamples(w) ==
    {t \in {MinOf(w), MinOf(w) + 1, MaxOf(w),
            MinOf("i32") - 1, MinOf("i32"), MinOf("i32") + 1,
            MaxOf("i32"), MaxOf("i32") + 1,
            0 - 2, 0 - 1, 0, 1} : t >= MinOf(w) /\ t <= MaxOf(w)}

\* -(*self) at width w; None is a panic
NegAt(w, t, overflowChecks) ==
    IF t = MinOf(w)
    THEN IF overflowChecks THEN None ELSE Some(t)
    ELSE Some(0 - t)

\* i32::try_from(v).unwrap(); None is a panic
TryFromUnwrap(v) ==
    IF v >= MinOf("i32") /\ v <= MaxOf("i32") THEN Some(v) ELSE None

\* IsNegative::negate at width w; None is a panic
negate(w, t, overflowChecks) ==
    LET n == NegAt(w, t, overflowChecks)
    IN  IF w = "i32" \/ n = None THEN n ELSE TryFromUnwrap(n[1])

CallCvt ==
    /\ \E w \in Widths : \E t \in CvtSamples(w) : \E overflowChecks \in BOOLEAN :
          Enter("cvt", <<w, t, overflowChecks>>, "cvt_body")
    /\ UNCHANGED <<flags, errno, tick, netAvailable, onHold, hist, sotimeo, openFds, fdt,
                   timeout, start, r, wait>>

\* cvt(t); a panic leaves the thread at "panicked"
CVT_Body ==
    /\ pc = "cvt_body"
    /\ LET t == arg[2]
           n == negate(arg[1], t, arg[3])
       IN  IF ~IsNegative(t) THEN Finish(Ok(t))
           ELSE IF n = None THEN pc' = "panicked" /\ UNCHANGED result
           ELSE Finish(ErrOs(n[1]))
    /\ UNCHANGED <<op, arg, oslog, entryFlags, flags, errno, tick, netAvailable,
                   onHold, hist, sotimeo, openFds, fdt, timeout, start, r, wait>>

(***************************************************************************)
(* init: Initialize, SubmitNetworkRequest, then sleep a second at a time   *)
(* while the request is on hold.  The network service takes the request    *)
(* off hold when it pleases, or never.  init reads no clock, so the time   *)
(* it sleeps is left out; oslog keeps the first MaxSleepsLogged sleeps.    *)
(***************************************************************************)
MaxSleepsLogged == 2
SleepNanos == 1000000000

\* a loop that never waits
InitWaitsNever(hold) == FALSE

\* the condition of init's while loop on what IsNetworkRequestOnHold returns
InitWaits(hold) == hold

CallInit ==
    /\ Enter("init", None, "in_initialize")
    /\ UNCHANGED <<flags, errno, tick, netAvailable, onHold, hist, sotimeo, openFds, fdt,
                   timeout, start, r, wait>>

IN_Initialize ==
    /\ pc = "in_initialize"
    /\ pc' = "in_submit"
    /\ oslog' = Append(oslog, Call("Initialize", None, 0, 0, Now, Now))
    /\ UNCHANGED <<op, arg, result, entryFlags, flags, errno, tick, netAvailable,
                   onHold, hist, sotimeo, openFds, fdt, timeout, start, r, wait>>

\* the request is on hold until the service has decided on it, which it may
\* have done by the time the call returns
IN_Submit ==
    /\ pc = "in_submit"
    /\ pc' = "in_wait"
    /\ oslog' = Append(oslog, Call("SubmitNetworkRequest", None, 0, 0, Now, Now))
    /\ onHold' \in BOOLEAN
    /\ UNCHANGED <<op, arg, result, entryFlags, flags, errno, tick, netAvailable,
                   hist, sotimeo, openFds, fdt, timeout, start, r, wait>>

\* while (IsNetworkRequestOnHold())
IN_Check ==
    /\ pc = "in_wait"
    /\ IF InitWaits(onHold)
       THEN pc' = "in_sleep" /\ UNCHANGED result
       ELSE Finish(Ok(0))
    /\ UNCHANGED <<op, arg, oslog, entryFlags, flags, errno, tick, netAvailable,
                   onHold, hist, sotimeo, openFds, fdt, timeout, start, r, wait>>

\* SleepThread(TimeSpan::nano(1000000000))
IN_Sleep ==
    /\ pc = "in_sleep"
    /\ pc' = "in_wait"
    /\ oslog' = IF Len(CallsOf("SleepThread")) < MaxSleepsLogged
                THEN Append(oslog, Call("SleepThread", SleepNanos, 0, 0, Now, Now))
                ELSE oslog
    /\ UNCHANGED <<op, arg, result, entryFlags, flags, errno, tick, netAvailable,
                   onHold, hist, sotimeo, openFds, fdt, timeout, start, r, wait>>

\* the network service accepts or rejects the request
RequestDecided ==
    /\ onHold
    /\ onHold' = FALSE
    /\ UNCHANGED <<pc, op, flags, errno, tick, netAvailable, sotimeo, openFds, fdt, oslog,
                   result, timeout, start, r, wait, entryFlags, arg, hist>>

(***************************************************************************)
(* The wait connect_timeout computes, on its own, at widths small enough   *)
(* for the multiplication to saturate and the clamp to bite: u64 and c_int *)
(* of ByteBits bits a byte.                                                *)
(***************************************************************************)
U64MaxAt == 2^(Bytes.i64 * ByteBits) - 1
CIntMaxAt == MaxOf("i32")

\* remaining times round the edges: under a millisecond, round c_int::MAX
\* milliseconds, round the seconds whose milliseconds overflow u64
WaitSecs ==
    {0, 1, CIntMaxAt \div MillisPerSec, CIntMaxAt \div MillisPerSec + 1,
     U64MaxAt \div MillisPerSec, U64MaxAt \div MillisPerSec + 1, U64MaxAt}
WaitNanos ==
    {n \in {0, NanosPerMilli - 1, NanosPerMilli,
            (CIntMaxAt % MillisPerSec) * NanosPerMilli,
            ((CIntMaxAt % MillisPerSec) + 1) * NanosPerMilli,
            NanosPerSec - 1} : n < NanosPerSec}

CallPollWait ==
    /\ \E secs \in WaitSecs : \E nanos \in WaitNanos :
          Enter("poll_wait", <<secs, nanos>>, "pw_body")
    /\ UNCHANGED <<flags, errno, tick, netAvailable, onHold, hist, sotimeo, openFds, fdt,
                   timeout, start, r, wait>>

PW_Body ==
    /\ pc = "pw_body"
    /\ Finish(Ok(PollWaitAt(arg[1], arg[2], U64MaxAt, CIntMaxAt)))
    /\ UNCHANGED <<op, arg, oslog, entryFlags, flags, errno, tick, netAvailable,
                   onHold, hist, sotimeo, openFds, fdt, timeout, start, r, wait>>

(***************************************************************************)
(* Descriptors and the Sockets that own them: Socket::new, new_pair,       *)
(* into_inner, into_raw_fd, from_raw_fd, and a Socket going out of scope.  *)
(* FileDesc is sys::fd code: it closes its descriptor when dropped, and    *)
(* into_raw gives the descriptor up without closing it.                    *)
(***************************************************************************)
MaxFds == 3
FdPool == (NewFd + 1)..(NewFd + MaxFds)

\* the descriptor the OS hands out next: the lowest one not open
LowestFd(S) == CHOOSE x \in S : \A y \in S : x <= y
FreeFds(t) == FdPool \ t.open

\* libc::close(fd), as FileDesc's drop issues it; closing a descriptor that
\* is not open, or one the caller holds raw, is recorded
CloseFd(t, fd) ==
    [t EXCEPT !.open = @ \ {fd},
              !.cloexec = @ \ {fd},
              !.misclosed = IF fd \in t.open /\ fd \notin t.raw THEN @ ELSE @ \cup {fd}]

\* FileDesc::into_raw: the descriptor leaves its owner and stays open
IntoRaw(t, fd) == [t EXCEPT !.owned = @ \ {fd}]

\* a Socket dropped: its FileDesc closes the descriptor
DropSocketFd(t, fd) == CloseFd([t EXCEPT !.owned = @ \ {fd}], fd)

\* into_raw_fd: self.as_raw_fd() reads the descriptor, and self, taken by
\* value, is dropped when the function returns
AfterIntoRawFd(t, fd) == DropSocketFd(t, fd)

\* into_inner: self.0.into_raw()
AfterIntoInner(t, fd) == IntoRaw(t, fd)

\* new_pair with b made a FileDesc only after a.set_cloexec()?
PairAtCloexecLate(a, b) == {a}

\* the FileDescs alive in new_pair when a.set_cloexec() and b.set_cloexec()
\* run: a and b are both made before either call
PairAtCloexec(a, b) == {a, b}

\* the descriptors closed, one after the other, when their FileDescs drop
RECURSIVE CloseAll(_, _)
CloseAll(t, fds) ==
    IF fds = {} THEN t
    ELSE LET fd == LowestFd(fds) IN CloseAll(CloseFd(t, fd), fds \ {fd})

\* the close calls of CloseAll, for oslog
RECURSIVE CloseCalls(_)
CloseCalls(fds) ==
    IF fds = {} THEN <<>>
    ELSE LET fd == LowestFd(fds)
         IN  <<Call("close", Some(fd), 0, 0, Now, Now)>> \o CloseCalls(fds \ {fd})

CallNew ==
    /\ Enter("new", None, "nw_socket")
    /\ UNCHANGED <<flags, errno, tick, netAvailable, onHold, hist, sotimeo, openFds, fdt,
                   timeout, start, r, wait>>

\* cvt(libc::socket(fam, ty, 0))?  and  FileDesc::new(fd)
NW_Socket ==
    /\ pc = "nw_socket"
    /\ \E t \in {0 - 1} \cup (IF FreeFds(fdt) = {} THEN {} ELSE {LowestFd(FreeFds(fdt))}) :
         \E e \in IF IsMinusOne(t) THEN FailErrnos ELSE {errno} :
            /\ errno' = e
            /\ oslog' = Append(oslog, Call("socket", None, t, Reported(t, e), Now, Now))
            /\ IF cvt(t).ok
               THEN /\ r' = cvt(t)
                    /\ fdt' = [fdt EXCEPT !.open = @ \cup {t}]
                    /\ pc' = "nw_cloexec"
                    /\ result' = result
               ELSE Finish(cvt(t)) /\ UNCHANGED <<r, fdt>>
    /\ UNCHANGED <<flags, tick, netAvailable, onHold, hist, sotimeo, openFds, timeout,
                   start, wait, op, arg, entryFlags>>

\* fd.set_cloexec()?  and  Ok(Socket(fd)); a failure drops the FileDesc
NW_Cloexec ==
    /\ pc = "nw_cloexec"
    /\ \E ret \in {0, 0 - 1} :
         \E e \in IF ret < 0 THEN FcntlErrnos ELSE {errno} :
            /\ errno' = e
            /\ IF ret < 0
               THEN /\ Finish(ErrOs(e))
                    /\ fdt' = CloseAll(fdt, {r.val})
                    /\ oslog' = Append(oslog, Call("set_cloexec", Some(r.val), ret,
                                                   Reported(ret, e), Now, Now))
                                \o CloseCalls({r.val})
               ELSE /\ Finish(Ok(r.val))
                    /\ fdt' = [fdt EXCEPT !.cloexec = @ \cup {r.val},
                                          !.owned = @ \cup {r.val}]
                    /\ oslog' = Append(oslog, Call("set_cloexec", Some(r.val), ret,
                                                   Reported(ret, e), Now, Now))
    /\ UNCHANGED <<flags, tick, netAvailable, onHold, hist, sotimeo, openFds, timeout,
                   start, wait, op, arg, entryFlags, r>>

CallNewPair ==
    /\ Enter("new_pair", None, "np_socketpair")
    /\ UNCHANGED <<flags, errno, tick, netAvailable, onHold, hist, sotimeo, openFds, fdt,
                   timeout, start, r, wait>>

\* cvt(libc::socketpair(fam, ty, 0, fds.as_mut_ptr()))?  and the two
\* FileDesc::new; the OS fills fds with the two lowest free descriptors
NP_Socketpair ==
    /\ pc = "np_socketpair"
    /\ \E t \in {0 - 1} \cup (IF Cardinality(FreeFds(fdt)) < 2 THEN {} ELSE {0}) :
         \E e \in IF IsMinusOne(t) THEN FailErrnos ELSE {errno} :
            LET a == LowestFd(FreeFds(fdt))
                b == LowestFd(FreeFds(fdt) \ {a})
            IN  /\ errno' = e
                /\ IF cvt(t).ok
                   THEN /\ oslog' = Append(oslog, Call("socketpair", Some(<<a, b>>), t,
                                                       Reported(t, e), Now, Now))
                        /\ r' = Ok(<<a, b>>)
                        /\ fdt' = [fdt EXCEPT !.open = @ \cup {a, b}]
                        /\ pc' = "np_cloexec_a"
                        /\ result' = result
                   ELSE /\ oslog' = Append(oslog, Call("socketpair", None, t,
                                                       Reported(t, e), Now, Now))
                        /\ Finish(cvt(t))
                        /\ UNCHANGED <<r, fdt>>
    /\ UNCHANGED <<flags, tick, netAvailable, onHold, hist, sotimeo, openFds, timeout,
                   start, wait, op, arg, entryFlags>>

\* a.set_cloexec()?
NP_CloexecA ==
    /\ pc = "np_cloexec_a"
    /\ \E ret \in {0, 0 - 1} :
         \E e \in IF ret < 0 THEN FcntlErrnos ELSE {errno} :
            LET a     == r.val[1]
                b     == r.val[2]
                alive == PairAtCloexec(a, b)
                call  == Call("set_cloexec", Some(a), ret, Reported(ret, e), Now, Now)
            IN  /\ errno' = e
                /\ IF ret < 0
                   THEN /\ Finish(ErrOs(e))
                        /\ fdt' = CloseAll(fdt, alive)
                        /\ oslog' = Append(oslog, call) \o CloseCalls(alive)
                   ELSE /\ pc' = "np_cloexec_b"
                        /\ result' = result
                        /\ fdt' = [fdt EXCEPT !.cloexec = @ \cup {a}]
                        /\ oslog' = Append(oslog, call)
    /\ UNCHANGED <<flags, tick, netAvailable, onHold, hist, sotimeo, openFds, timeout,
                   start, wait, op, arg, entryFlags, r>>

\* b.set_cloexec()?  and  Ok((Socket(a), Socket(b)))
NP_CloexecB ==
    /\ pc = "np_cloexec_b"
    /\ \E ret \in {0, 0 - 1} :
         \E e \in IF ret < 0 THEN FcntlErrnos ELSE {errno} :
            LET a     == r.val[1]
                b     == r.val[2]
                alive == PairAtCloexec(a, b)
                call  == Call("set_cloexec", Some(b), ret, Reported(ret, e), Now, Now)
            IN  /\ errno' = e
                /\ IF ret < 0
                   THEN /\ Finish(ErrOs(e))
                        /\ fdt' = CloseAll(fdt, alive)
                        /\ oslog' = Append(oslog, call) \o CloseCalls(alive)
                   ELSE /\ Finish(Ok(<<a, b>>))
                        /\ fdt' = [fdt EXCEPT !.cloexec = @ \cup {b},
                                              !.owned = @ \cup {a, b}]
                        /\ oslog' = Append(oslog, call)
    /\ UNCHANGED <<flags, tick, netAvailable, onHold, hist, sotimeo, openFds, timeout,
                   start, wait, op, arg, entryFlags, r>>

\* socket.into_inner(), on a Socket the caller has
CallIntoInner ==
    /\ \E fd \in fdt.owned : Enter("into_inner", Some(fd), "ii_body")
    /\ UNCHANGED <<flags, errno, tick, netAvailable, onHold, hist, sotimeo, openFds, fdt,
                   timeout, start, r, wait>>

II_Body ==
    /\ pc = "ii_body"
    /\ Finish(Ok(arg[1]))
    /\ fdt' = [AfterIntoInner(fdt, arg[1]) EXCEPT !.raw = @ \cup {arg[1]}]
    /\ UNCHANGED <<flags, errno, tick, netAvailable, onHold, hist, sotimeo, openFds,
                   timeout, start, r, wait, op, arg, entryFlags, oslog>>

\* socket.into_raw_fd(), on a Socket the caller has
CallIntoRawFd ==
    /\ \E fd \in fdt.owned : Enter("into_raw_fd", Some(fd), "irf_body")
    /\ UNCHANGED <<flags, errno, tick, netAvailable, onHold, hist, sotimeo, openFds, fdt,
                   timeout, start, r, wait>>

IRF_Body ==
    /\ pc = "irf_body"
    /\ Finish(Ok(arg[1]))
    /\ fdt' = [AfterIntoRawFd(fdt, arg[1]) EXCEPT !.raw = @ \cup {arg[1]}]
    /\ oslog' = IF arg[1] \in AfterIntoRawFd(fdt, arg[1]).open
                THEN oslog
                ELSE Append(oslog, Call("close", arg, 0, 0, Now, Now))
    /\ UNCHANGED <<flags, errno, tick, netAvailable, onHold, hist, sotimeo, openFds,
                   timeout, start, r, wait, op, arg, entryFlags>>

\* Socket::from_raw_fd(fd), on a descriptor the caller was given
FromRawFd ==
    /\ pc = "idle"
    /\ \E fd \in fdt.raw :
          fdt' = [fdt EXCEPT !.raw = @ \ {fd}, !.owned = @ \cup {fd}]
    /\ UNCHANGED <<pc, op, flags, errno, tick, netAvailable, onHold, sotimeo, openFds,
                   oslog, result, timeout, start, r, wait, entryFlags, arg, hist>>

\* a Socket the caller has goes out of scope
DropSocket ==
    /\ pc = "idle"
    /\ \E fd \in fdt.owned : fdt' = DropSocketFd(fdt, fd)
    /\ UNCHANGED <<pc, op, flags, errno, tick, netAvailable, onHold, sotimeo, openFds,
                   oslog, result, timeout, start, r, wait, entryFlags, arg, hist>>

(***************************************************************************)
(* Instant::now over the whole range of the tick counter, a u64 of         *)
(* TickBits bits here.  `tick * 625` is a plain multiplication: past       *)
(* u64::MAX it panics in a build with overflow checks and wraps otherwise. *)
(***************************************************************************)
TickBits == 12
TickMax == 2^TickBits - 1

\* tick * 625 at the width of the counter; None is a panic
TickProduct(t, overflowChecks) ==
    IF t * TickMul <= TickMax THEN Some(t * TickMul)
    ELSE IF overflowChecks THEN None
    ELSE Some((t * TickMul) % (TickMax + 1))

\* the nanoseconds of Instant::now when GetSystemTick returns t; None is a panic
InstantNowAt(t, overflowChecks) ==
    LET product == TickProduct(t, overflowChecks)
    IN  IF product = None THEN None ELSE Some(product[1] \div TickDiv)

\* counter values round the ends and round the last one whose product fits
TickSamples ==
    {0, 1, TickDiv, TickMax \div TickMul, TickMax \div TickMul + 1,
     TickMax \div TickMul + 2, TickMax - 1, TickMax}

\* two calls of Instant::now, the counter reading `first` and then `later`
CallInstantNow ==
    /\ \E first \in TickSamples : \E later \in TickSamples :
         \E overflowChecks \in BOOLEAN :
            /\ first <= later
            /\ Enter("instant_now", <<first, later, overflowChecks>>, "now_first")
    /\ UNCHANGED <<flags, errno, tick, netAvailable, onHold, hist, sotimeo, openFds, fdt,
                   timeout, start, r, wait>>

NOW_First ==
    /\ pc = "now_first"
    /\ LET now == InstantNowAt(arg[1], arg[3])
       IN  IF now = None
           THEN pc' = "panicked" /\ UNCHANGED r
           ELSE pc' = "now_second" /\ r' = Ok(now[1])
    /\ UNCHANGED <<op, arg, oslog, entryFlags, flags, errno, tick, netAvailable, result,
                   onHold, hist, sotimeo, openFds, fdt, timeout, start, wait>>

NOW_Second ==
    /\ pc = "now_second"
    /\ LET now == InstantNowAt(arg[2], arg[3])
       IN  IF now = None
           THEN pc' = "panicked" /\ UNCHANGED result
           ELSE Finish(Ok(<<r.val, now[1]>>))
    /\ UNCHANGED <<op, arg, oslog, entryFlags, flags, errno, tick, netAvailable,
                   onHold, hist, sotimeo, openFds, fdt, timeout, start, r, wait>>

(***************************************************************************)
(* The caller takes the result; the thread is free for the next call.      *)
(***************************************************************************)
\* what the call that returns leaves behind for the calls after it
HistAfter ==
    [nb    |-> IF op = "set_nonblocking" /\ result.ok THEN arg ELSE None,
     timeo |-> IF op = "set_timeout" /\ result.ok
               THEN [hist.timeo EXCEPT ![arg[2]] = arg[1]]
               ELSE hist.timeo]

Return ==
    /\ pc = "done"
    /\ pc' = "idle"
    /\ op' = "none"
    /\ oslog' = <<>>
    /\ result' = Ok(0)
    /\ timeout' = 0
    /\ start' = 0
    /\ r' = Ok(0)
    /\ wait' = 0
    /\ arg' = None
    /\ entryFlags' = flags
    /\ openFds' = {}
    /\ hist' = HistAfter
    /\ UNCHANGED <<flags, errno, tick, netAvailable, onHold, sotimeo, fdt>>

Next ==
    \/ CallSetNonblocking
    \/ NB_Body
    \/ CallConnectTimeout
    \/ CT_SetNonblocking
    \/ CT_Connect
    \/ CT_Restore
    \/ CT_Match
    \/ CT_LoopHead
    \/ CT_Poll
    \/ CallConnect
    \/ CN_Connect
    \/ CallCvtR
    \/ CR_Invoke
    \/ CallAccept
    \/ AC_Accept
    \/ AC_Cloexec
    \/ CallCvtGai
    \/ GAI_Body
    \/ NetworkChange
    \/ CallSetTimeout
    \/ ST_Body
    \/ CallTimeout
    \/ TO_Body
    \/ CallSetLinger
    \/ SL_Body
    \/ CallLinger
    \/ LG_Body
    \/ CallInstantRoundTrip
    \/ IR_Add
    \/ IR_Sub
    \/ CallCheckedSubDuration
    \/ CSD_Body
    \/ CallSubTime
    \/ SUB_Body
    \/ CallCvt
    \/ CVT_Body
    \/ CallInit
    \/ IN_Initialize
    \/ IN_Submit
    \/ IN_Check
    \/ IN_Sleep
    \/ RequestDecided
    \/ CallPollWait
    \/ PW_Body
    \/ CallNew
    \/ NW_Socket
    \/ NW_Cloexec
    \/ CallNewPair
    \/ NP_Socketpair
    \/ NP_CloexecA
    \/ NP_CloexecB
    \/ CallIntoInner
    \/ II_Body
    \/ CallIntoRawFd
    \/ IRF_Body
    \/ FromRawFd
    \/ DropSocket
    \/ CallInstantNow
    \/ NOW_First
    \/ NOW_Second
    \/ Return

Spec == Init /\ [][Next]_vars

\* the parts of the program the properties below are about, each on its own
NextConnectTimeout ==
    \/ CallSetNonblocking
    \/ NB_Body
    \/ CallConnectTimeout
    \/ CT_SetNonblocking
    \/ CT_Connect
    \/ CT_Restore
    \/ CT_Match
    \/ CT_LoopHead
    \/ CT_Poll
    \/ Return

SpecConnectTimeout == Init /\ [][NextConnectTimeout]_vars

\* connect_timeout together with the computation of its wait
NextPollWait ==
    \/ CallSetNonblocking
    \/ NB_Body
    \/ CallConnectTimeout
    \/ CT_SetNonblocking
    \/ CT_Connect
    \/ CT_Restore
    \/ CT_Match
    \/ CT_LoopHead
    \/ CT_Poll
    \/ CallPollWait
    \/ PW_Body
    \/ Return

SpecPollWait == Init /\ [][NextPollWait]_vars

NextRetry ==
    \/ CallConnect
    \/ CN_Connect
    \/ CallCvtR
    \/ CR_Invoke
    \/ CallAccept
    \/ AC_Accept
    \/ AC_Cloexec
    \/ Return

SpecRetry == Init /\ [][NextRetry]_vars

NextOptions ==
    \/ CallSetNonblocking
    \/ NB_Body
    \/ CallCvtGai
    \/ GAI_Body
    \/ NetworkChange
    \/ CallSetTimeout
    \/ ST_Body
    \/ CallTimeout
    \/ TO_Body
    \/ CallSetLinger
    \/ SL_Body
    \/ CallLinger
    \/ LG_Body
    \/ Return

SpecOptions == Init /\ [][NextOptions]_vars

\* descriptors from creation to close
NextFd ==
    \/ CallNew
    \/ NW_Socket
    \/ NW_Cloexec
    \/ CallNewPair
    \/ NP_Socketpair
    \/ NP_CloexecA
    \/ NP_CloexecB
    \/ CallAccept
    \/ AC_Accept
    \/ AC_Cloexec
    \/ CallIntoInner
    \/ II_Body
    \/ CallIntoRawFd
    \/ IRF_Body
    \/ FromRawFd
    \/ DropSocket
    \/ Return

SpecFd == Init /\ [][NextFd]_vars

NextArith ==
    \/ CallInstantRoundTrip
    \/ IR_Add
    \/ IR_Sub
    \/ CallCheckedSubDuration
    \/ CSD_Body
    \/ CallSubTime
    \/ SUB_Body
    \/ CallCvt
    \/ CVT_Body
    \/ CallInstantNow
    \/ NOW_First
    \/ NOW_Second
    \/ Return

SpecArith == Init /\ [][NextArith]_vars

NextNet ==
    \/ CallInit
    \/ IN_Initialize
    \/ IN_Submit
    \/ IN_Check
    \/ IN_Sleep
    \/ RequestDecided
    \/ CallCvtGai
    \/ GAI_Body
    \/ NetworkChange
    \/ Return

SpecNet == Init /\ [][NextNet]_vars

\* the calling thread keeps running: a step of init that can be taken is
\* taken; the network service owes nothing
SpecNetFair ==
    /\ SpecNet
    /\ WF_vars(IN_Initialize)
    /\ WF_vars(IN_Submit)
    /\ WF_vars(IN_Check)
    /\ WF_vars(IN_Sleep)

(***************************************************************************)
(* Properties.                                                             *)
(***************************************************************************)
Last(q) == q[Len(q)]
Max(a, b) == IF a >= b THEN a ELSE b

InConnectTimeout == op = "connect_timeout"
Returned(name) == op = name /\ pc = "done"
Polls == CallsOf("poll")
NoFcntlFailed ==
    \A i \in 1..Len(oslog) :
        oslog[i].call \in {"fcntl_getfl", "fcntl_setfl"} => oslog[i].ret >= 0
Deadline == start + timeout

\* C1: connect_timeout called with a zero timeout returns InvalidInput and
\* issues no OS call before returning (no fcntl, no connect, no poll).
C1_ZeroTimeoutIssuesNoCall ==
    (InConnectTimeout /\ timeout = 0) =>
        /\ oslog = <<>>
        /\ pc = "done" => result = ErrKind("InvalidInput")

\* C2: on every exit path of connect_timeout (the fcntl calls themselves
\* succeeding), O_NONBLOCK on return is what it was on entry, whichever
\* value that was.
C2_NonblockingRestored ==
    (Returned("connect_timeout") /\ NoFcntlFailed) =>
        HasBit(flags, O_NONBLOCK) = HasBit(entryFlags, O_NONBLOCK)

\* the parts of C3 that do not depend on when readiness is reported:
\* TimedOut only when elapsed >= timeout; every poll's wait is at most the
\* time that remained when it started, or 1 ms; the return comes no later
\* than the deadline plus the last poll's wait.
C3_Common ==
    /\ \A i \in 1..Len(Polls) :
          /\ Polls[i].t0 < Deadline
          /\ Polls[i].arg[1] * NanosPerMilli
                <= Max(Deadline - Polls[i].t0, NanosPerMilli)
    /\ pc = "done" =>
          /\ result.kind = "TimedOut" => Elapsed(start, Now) >= timeout
          /\ Len(Polls) > 0 => Now <= Deadline + Last(Polls).arg[1] * NanosPerMilli
          /\ result.ok => Len(Polls) > 0 /\ Last(Polls).ret > 0

\* C3 as stated: for a nonzero timeout, once in the poll loop, success is
\* returned only if poll reported readiness before the deadline, TimedOut
\* only when elapsed >= timeout, and the return comes no later than the
\* deadline plus one poll wait.
C3_SuccessBeforeDeadline ==
    (InConnectTimeout /\ pc \in {"ct_loop", "ct_poll", "done"}
       /\ ConnectInProgress(r) /\ timeout > 0) =>
        /\ C3_Common
        /\ (pc = "done" /\ result.ok) => Last(Polls).t1 <= Deadline

\* C3, amended: success is returned only if a poll started before the
\* deadline reported readiness, and the report comes before the deadline or,
\* when less than 1 ms remained at that poll's start, within 1 ms of the
\* poll's start; the rest as stated.
C3_SuccessFromPollBeforeDeadline ==
    (InConnectTimeout /\ pc \in {"ct_loop", "ct_poll", "done"}
       /\ ConnectInProgress(r) /\ timeout > 0) =>
        /\ C3_Common
        /\ (pc = "done" /\ result.ok) =>
              /\ Last(Polls).t0 < Deadline
              /\ Last(Polls).t1 <= Max(Deadline, Last(Polls).t0 + NanosPerMilli)

\* C3's case: success after a second poll, reported after the deadline
C3_Witness ==
    /\ Returned("connect_timeout")
    /\ result.ok
    /\ Len(Polls) >= 2
    /\ Last(Polls).t1 > Deadline

\* C4: cvt_r calls f again after every interrupted result and returns the
\* first result that is not interrupted: n interrupted results, then one
\* that is not, make n+1 invocations.
C4_CvtRRetriesInterrupted ==
    (op = "cvt_r" /\ Len(oslog) > 0) =>
        /\ \A i \in 1..(Len(oslog) - 1) : IsInterruption(oslog[i])
        /\ IsInterruption(Last(oslog)) => pc = "cr_loop"
        /\ pc = "done" => result = cvt(Last(oslog).ret)

\* C5: in the poll loop a poll interrupted by EINTR never makes
\* connect_timeout return: the loop is re-entered; any other poll failure
\* is returned at once.
C5_PollInterruptReenters ==
    (InConnectTimeout /\ pc \in {"ct_loop", "done"} /\ Len(oslog) > 0
       /\ Last(oslog).call = "poll" /\ Last(oslog).ret < 0) =>
        IF IsInterruption(Last(oslog))
        THEN pc = "ct_loop"
        ELSE pc = "done" /\ result = ErrOs(Last(oslog).err)

\* the connect call connect_timeout issued, once it has
ConnectCall == CallsOf("connect")[1]

\* C6: with a nonzero timeout, a connect that returns -1 with errno
\* EINPROGRESS sends connect_timeout into the poll loop, not to an error
\* return; a connect that completes at once gives success without a poll.
C6_InProgressEntersPollLoop ==
    (Returned("connect_timeout") /\ timeout > 0 /\ NoFcntlFailed) =>
        /\ (IsMinusOne(ConnectCall.ret) /\ ConnectCall.err = EINPROGRESS) =>
              Len(Polls) > 0
        /\ ConnectCall.ret = 0 => (result = Ok(0) /\ Len(Polls) = 0)

\* C7: blocking connect calls the OS again after every EINTR failure and
\* only then; the first other result decides: no failure, or EISCONN, gives
\* Ok, any other failure gives Err with that errno as raw OS error; the
\* error returned is never EINTR.
C7_ConnectRetriesOnlyEintr ==
    (op = "connect" /\ Len(oslog) > 0) =>
        /\ \A i \in 1..(Len(oslog) - 1) :
              IsMinusOne(oslog[i].ret) /\ oslog[i].err = EINTR
        /\ (IsMinusOne(Last(oslog).ret) /\ Last(oslog).err = EINTR) <=> pc = "cn_loop"
        /\ pc = "done" =>
              /\ result = IF ~IsMinusOne(Last(oslog).ret) \/ Last(oslog).err = EISCONN
                          THEN Ok(0)
                          ELSE [ok |-> FALSE, val |-> 0, kind |-> "Uncategorized",
                                raw |-> Some(Last(oslog).err)]
              /\ result.raw # Some(EINTR)

\* C7's case: two interruptions, then "already connected", give Ok
C7_Witness ==
    /\ Returned("connect")
    /\ Len(oslog) = 3
    /\ Last(oslog).err = EISCONN
    /\ result.ok

\* C8: accept calls the OS again whenever the accept call is interrupted
\* and returns only the first outcome that is not; on success that is a
\* Socket owning the accepted descriptor.
C8_AcceptRetriesInterrupted ==
    (op = "accept" /\ Len(oslog) > 0) =>
        /\ (Last(oslog).call = "accept" /\ IsInterruption(Last(oslog))) => pc = "ac_loop"
        /\ (pc = "done" /\ result.ok) => (result.val = NewFd /\ NewFd \in openFds)

\* C9: cvt_gai of resolver code 7 never succeeds: it gives NetworkDown when
\* the probe reports the network unavailable, and an error of kind Other,
\* with no OS code, when the probe reports it available.
C9_NoDataFollowsProbe ==
    (Returned("cvt_gai") /\ arg = Some(EAI_NODATA)) =>
        /\ ~result.ok
        /\ result.raw = None
        /\ result.kind = IF netAvailable THEN "Other" ELSE "NetworkDown"

\* C9's cases: code 7 classified with the network down
C9_Witness ==
    Returned("cvt_gai") /\ arg = Some(EAI_NODATA) /\ ~netAvailable
        /\ result.kind = "NetworkDown"

\* C10: set_timeout(Some(zero), kind) returns InvalidInput, issues no
\* setsockopt, and leaves the socket's timeouts as they were.
C10_ZeroTimeoutRejected ==
    [][(pc = "st_body" /\ arg[1] = Some(<<0, 0>>)) =>
          /\ pc' = "done"
          /\ result' = ErrKind("InvalidInput")
          /\ oslog' = <<>>
          /\ sotimeo' = sotimeo]_vars

\* C10's case: a zero duration rejected on a socket with a timeout configured
C10_Witness ==
    /\ Returned("set_timeout")
    /\ arg[1] = Some(<<0, 0>>)
    /\ sotimeo[arg[2]] # NoTimeval
    /\ result = ErrKind("InvalidInput")

\* a duration that is not zero and shorter than a microsecond
SubMicro(d) == as_secs(d) = 0 /\ subsec_nanos(d) > 0 /\ subsec_nanos(d) < NanosPerMicro

\* C11: set_timeout(Some(d), kind) with d not zero hands the OS a timeval
\* other than <<0, 0>>, and <<0, 1>> when d is below a microsecond;
\* set_timeout(None, kind) hands it <<0, 0>>; so timeout(kind) afterwards
\* returns Some in the first case (1 microsecond for a d below one) and None
\* in the second.
C11_NonzeroTimeoutStaysSet ==
    /\ (Returned("set_timeout") /\ arg[1] # Some(<<0, 0>>)) =>
          /\ Len(oslog) = 1
          /\ (oslog[1].arg[1] = NoTimeval) <=> (arg[1] = None)
          /\ (arg[1] # None /\ SubMicro(arg[1][1])) => oslog[1].arg[1] = <<0, 1>>
    /\ (Returned("timeout") /\ result.ok) =>
          LET d == hist.timeo[arg[1]]
          IN  /\ (result.val = None) <=> (d = None)
              /\ (d # None /\ SubMicro(d[1])) => result.val = Some(<<0, NanosPerMicro>>)

\* C11's case: a timeout set to less than a microsecond read back as one
C11_Witness ==
    /\ Returned("timeout")
    /\ hist.timeo[arg[1]] = Some(<<0, 500>>)
    /\ result.ok
    /\ result.val = Some(<<0, NanosPerMicro>>)

\* C12: set_linger, whatever its argument, and linger fail with the
\* "unsupported" error in every state of the socket, issue no OS call and
\* change nothing of the socket.
C12_LingerUnsupported ==
    [][(pc = "sl_body" \/ pc = "lg_body") =>
          /\ UNCHANGED <<flags, errno, sotimeo, openFds, fdt, tick>>
          /\ oslog' = <<>>
          /\ result' = ErrKind("Unsupported")
          /\ pc' = "done"]_vars

\* C12's case: set_linger(Some(d)) refused on a nonblocking socket that has a
\* timeout configured
C12_Witness ==
    /\ Returned("set_linger")
    /\ arg[1] # None
    /\ HasBit(flags, O_NONBLOCK)
    /\ sotimeo.rcv # NoTimeval
    /\ result = ErrKind("Unsupported")

\* the flags other than O_NONBLOCK
OtherFlags(f) == BitClear(f, O_NONBLOCK)

\* C13: set_nonblocking(b), once F_GETFL has told it the flags, issues
\* F_SETFL if and only if the O_NONBLOCK bit differs from b, and then with
\* only that bit changed; so a call that repeats the argument of the call
\* before it, which succeeded, issues no F_SETFL.
C13_FlagChangeOnlyWhenDifferent ==
    (Returned("set_nonblocking") /\ oslog[1].ret >= 0) =>
        LET setfl == CallsOf("fcntl_setfl")
        IN  /\ Len(setfl) = (IF HasBit(entryFlags, O_NONBLOCK) # arg[1] THEN 1 ELSE 0)
            /\ Len(setfl) = 1 =>
                  /\ HasBit(setfl[1].arg[1], O_NONBLOCK) = arg[1]
                  /\ OtherFlags(setfl[1].arg[1]) = OtherFlags(entryFlags)
            /\ result.ok =>
                  /\ HasBit(flags, O_NONBLOCK) = arg[1]
                  /\ OtherFlags(flags) = OtherFlags(entryFlags)
            /\ hist.nb = arg => Len(setfl) = 0

\* C13's case: set_nonblocking(true) right after a set_nonblocking(true):
\* F_GETFL alone
C13_Witness ==
    /\ Returned("set_nonblocking")
    /\ arg = Some(TRUE)
    /\ hist.nb = arg
    /\ result.ok
    /\ Len(oslog) = 1

\* a <<seconds, nanoseconds>> pair that is a Duration
IsDuration(d) ==
    /\ as_secs(d) \in 0..SecsMax
    /\ subsec_nanos(d) \in 0..(NanosPerSec - 1)

\* a < b, as durations
DurLess(a, b) ==
    \/ as_secs(a) < as_secs(b)
    \/ as_secs(a) = as_secs(b) /\ subsec_nanos(a) < subsec_nanos(b)

\* Duration::MAX - a: what can be added to a without overflow
Headroom(a) == <<SecsMax - as_secs(a), (NanosPerSec - 1) - subsec_nanos(a)>>

\* C14: checked_add_duration(x, d) is None exactly when x + d overflows
\* (d exceeds the headroom of x), and otherwise subtracting d from the sum
\* gives Some(x); checked_sub_duration(x, d) is None exactly when x < d, and
\* otherwise a duration that added to d gives x.
C14_AddThenSubIsIdentity ==
    /\ Returned("instant_round_trip") =>
          /\ (r.val = None) = DurLess(Headroom(arg[1]), arg[2])
          /\ r.val # None => /\ IsDuration(r.val[1])
                             /\ ~DurLess(r.val[1], arg[1])
                             /\ result.val = Some(arg[1])
    /\ Returned("checked_sub_duration") =>
          /\ (result.val = None) = DurLess(arg[1], arg[2])
          /\ result.val # None =>
                /\ IsDuration(result.val[1])
                /\ checked_add_duration(result.val[1], arg[2]) = Some(arg[1])

\* C14's case: an addition that carries into the seconds, undone
C14_Witness ==
    /\ Returned("instant_round_trip")
    /\ subsec_nanos(arg[1]) + subsec_nanos(arg[2]) > NanosPerSec
    /\ as_secs(arg[2]) > 0
    /\ r.val # None
    /\ result.val = Some(arg[1])

\* C15: sub_time(a, b) is Ok(a - b) when a >= b and Err(b - a) when a < b;
\* the duration it carries is a Duration, and it never panics.
C15_SubTimeCarriesMagnitude ==
    Returned("sub_time") =>
        /\ ~result.panic
        /\ result.ok = ~DurLess(arg[1], arg[2])
        /\ IsDuration(result.val)
        /\ result.ok => DurationCheckedAdd(result.val, arg[2]) = Some(arg[1])
        /\ ~result.ok => DurationCheckedAdd(result.val, arg[1]) = Some(arg[2])

\* C15's case: a < b with a borrow from the seconds
C15_Witness ==
    /\ Returned("sub_time")
    /\ ~result.ok
    /\ as_secs(arg[1]) < as_secs(arg[2])
    /\ subsec_nanos(arg[1]) > subsec_nanos(arg[2])
    /\ result.val # <<0, 0>>

\* C16: cvt(t) at every width is Ok(t) when t >= 0 and a failure with raw
\* OS error -t when t < 0, and it never panics.
C16_CvtNeverPanics ==
    /\ ~(op = "cvt" /\ pc = "panicked")
    /\ Returned("cvt") =>
          /\ arg[2] >= 0 => result = Ok(arg[2])
          /\ arg[2] < 0 => result = ErrOs(0 - arg[2])

\* init is between its call and its return
InInit == op = "init" /\ pc \in {"in_initialize", "in_submit", "in_wait", "in_sleep"}

\* C17: init calls Initialize, then SubmitNetworkRequest, then only sleeps;
\* the step that returns is taken with the request off hold, so init does
\* not return while the request stays on hold; and once the request is off
\* hold init returns.
C17_InitWaitsForRequest ==
    /\ [](op = "init" =>
            /\ \A i \in 1..Len(oslog) :
                  oslog[i].call = (IF i = 1 THEN "Initialize"
                                   ELSE IF i = 2 THEN "SubmitNetworkRequest"
                                   ELSE "SleepThread")
            /\ pc \in {"in_wait", "in_sleep", "done"} => Len(oslog) >= 2
            /\ pc = "done" => ~onHold /\ result = Ok(0))
    /\ [][(InInit /\ pc' = "done") => ~onHold]_vars
    /\ ((InInit /\ ~onHold /\ pc # "in_initialize" /\ pc # "in_submit") ~> Returned("init"))

\* C17's case: init returns after it slept with the request on hold
C17_Witness ==
    /\ Returned("init")
    /\ Len(CallsOf("SleepThread")) = MaxSleepsLogged
    /\ ~onHold

\* C18: in connect_timeout a poll that returns a positive count is the
\* last call of the operation, which has returned Ok, whatever the bits in
\* revents; the socket's pending error is not read.
C18_ReadyMeansSuccess ==
    (op = "connect_timeout" /\ \E i \in 1..Len(oslog) :
                                  oslog[i].call = "poll" /\ oslog[i].ret > 0) =>
        /\ Last(oslog).call = "poll"
        /\ Last(oslog).ret > 0
        /\ \A i \in 1..(Len(oslog) - 1) : oslog[i].call = "poll" => oslog[i].ret <= 0
        /\ CallsOf("getsockopt") = <<>>
        /\ pc = "done"
        /\ result = Ok(0)

\* C18's case: poll reports the refused connection, error and hang-up bits
\* set, after a wait that expired
C18_Witness ==
    /\ Returned("connect_timeout")
    /\ Len(Polls) >= 2
    /\ Last(oslog).call = "poll"
    /\ Last(oslog).ret > 0
    /\ {"POLLERR", "POLLHUP"} \subseteq Last(oslog).revents
    /\ result = Ok(0)

\* C19: every wait connect_timeout passes to poll is in 1..c_int::MAX; the
\* wait computed for a remaining time is 1 below a millisecond, c_int::MAX
\* above c_int::MAX milliseconds, saturated multiplication included, and
\* the whole milliseconds otherwise.
C19_PollWaitInRange ==
    /\ \A i \in 1..Len(oslog) :
          oslog[i].call = "poll" => oslog[i].arg[1] \in 1..CIntMax
    /\ pc = "ct_poll" => wait \in 1..CIntMax
    /\ Returned("poll_wait") =>
          LET secs == arg[1]
              ms   == arg[2] \div NanosPerMilli
              over == \/ secs > CIntMaxAt \div MillisPerSec
                      \/ /\ secs = CIntMaxAt \div MillisPerSec
                         /\ ms > CIntMaxAt % MillisPerSec
          IN  /\ result.val \in 1..CIntMaxAt
              /\ (secs = 0 /\ ms = 0) => result.val = 1
              /\ over => result.val = CIntMaxAt
              /\ (~over /\ ~(secs = 0 /\ ms = 0)) =>
                    result.val = secs * MillisPerSec + ms

\* C19's case: seconds whose milliseconds overflow u64
C19_Witness ==
    /\ Returned("poll_wait")
    /\ arg[1] > U64MaxAt \div MillisPerSec
    /\ arg[1] < U64MaxAt
    /\ result.val = CIntMaxAt

\* C20: cvt_gai(code) is Ok exactly for code 0, and then makes no call;
\* for EAI_SYSTEM it is the error of the last OS error code; for a code
\* other than 0, EAI_SYSTEM and 7 it is an error of kind Other made from
\* gai_strerror(code); IsNetworkAvailable is called for code 7 and no other.
C20_GaiClassification ==
    Returned("cvt_gai") =>
        LET code == arg[1]
        IN  /\ result.ok = (code = 0)
            /\ code = 0 => oslog = <<>>
            /\ code # 0 => oslog[1].call = "on_resolver_failure"
            /\ code = EAI_SYSTEM => result = ErrOs(errno) /\ Len(oslog) = 1
            /\ code \notin {0, EAI_SYSTEM, EAI_NODATA} =>
                  /\ result = ErrKind("Other")
                  /\ Len(CallsOf("gai_strerror")) = 1
                  /\ CallsOf("gai_strerror")[1].arg = Some(code)
            /\ code \in {0, EAI_SYSTEM, EAI_NODATA} => CallsOf("gai_strerror") = <<>>
            /\ Len(CallsOf("IsNetworkAvailable")) = (IF code = EAI_NODATA THEN 1 ELSE 0)

\* C20's case: EAI_SYSTEM with an OS error code left behind
C20_Witness ==
    /\ Returned("cvt_gai")
    /\ arg = Some(EAI_SYSTEM)
    /\ errno # 0
    /\ result.raw = Some(errno)
    /\ ~netAvailable

\* C21: the descriptor into_raw_fd or into_inner returns is open and no
\* Socket owns it; every descriptor a Socket owns or the caller holds is
\* open, and none was closed twice or while the caller held it.
C21_ReleasedDescriptorStaysOpen ==
    /\ (Returned("into_raw_fd") \/ Returned("into_inner")) =>
          /\ result.val \in fdt.open
          /\ result.val \notin fdt.owned
          /\ CallsOf("close") = <<>>
    /\ fdt.raw \subseteq fdt.open
    /\ fdt.owned \subseteq fdt.open
    /\ fdt.misclosed = {}

\* the set_cloexec calls of the operation in progress that failed
FailedCloexec == SelectSeq(oslog, LAMBDA c : c.call = "set_cloexec" /\ c.ret < 0)

\* descriptors the operation in progress has closed
ClosedInCall == {CallsOf("close")[i].arg[1] : i \in 1..Len(CallsOf("close"))}

\* C22: when new, new_pair or accept got descriptors from the OS and a
\* set_cloexec failed, the call returns the error with every descriptor it
\* got closed (both, for new_pair); when it succeeds every descriptor it
\* returns is open, owned by the returned Socket and marked close-on-exec;
\* between calls no descriptor is open without a Socket or the caller
\* holding it.
C22_NoDescriptorLeak ==
    /\ Returned("new") =>
          /\ (CallsOf("socket")[1].ret >= 0 /\ FailedCloexec # <<>>) =>
                /\ ~result.ok
                /\ CallsOf("socket")[1].ret \notin fdt.open
                /\ ClosedInCall = {CallsOf("socket")[1].ret}
          /\ result.ok =>
                /\ result.val = CallsOf("socket")[1].ret
                /\ result.val \in fdt.open \cap fdt.owned \cap fdt.cloexec
    /\ Returned("new_pair") =>
          LET got == CallsOf("socketpair")[1]
          IN  /\ (got.ret >= 0 /\ FailedCloexec # <<>>) =>
                    /\ ~result.ok
                    /\ {got.arg[1][1], got.arg[1][2]} \cap fdt.open = {}
                    /\ ClosedInCall = {got.arg[1][1], got.arg[1][2]}
              /\ result.ok =>
                    /\ result.val = got.arg[1]
                    /\ result.val[1] # result.val[2]
                    /\ {result.val[1], result.val[2]}
                          \subseteq fdt.open \cap fdt.owned \cap fdt.cloexec
    /\ Returned("accept") =>
          /\ (Last(CallsOf("accept")).ret >= 0 /\ FailedCloexec # <<>>) =>
                /\ ~result.ok
                /\ Last(CallsOf("accept")).ret \notin openFds
          /\ result.ok =>
                /\ result.val \in openFds
                /\ Last(oslog).call = "set_cloexec"
                /\ Last(oslog).arg = Some(result.val)
                /\ Last(oslog).ret >= 0
    /\ pc \in {"idle", "done"} => fdt.open \subseteq fdt.owned \cup fdt.raw

\* C22's case: new_pair fails at the second set_cloexec, other Sockets open
C22_Witness ==
    /\ Returned("new_pair")
    /\ ~result.ok
    /\ Len(CallsOf("set_cloexec")) = 2
    /\ Len(CallsOf("close")) = 2
    /\ fdt.owned # {}

\* C23: Instant::now gives floor(t * 625 / 12) nanoseconds for every value
\* t of the tick counter, without overflow, so of two readings the later
\* one is never the smaller Instant.
C23_InstantNowMonotonic ==
    /\ ~(op = "instant_now" /\ pc = "panicked")
    /\ Returned("instant_now") =>
          /\ result.val[1] = (arg[1] * TickMul) \div TickDiv
          /\ result.val[2] = (arg[2] * TickMul) \div TickDiv
          /\ result.val[1] <= result.val[2]

=============================================================================
